---- MODULE Spec2Model ----
(***************************************************************************)
(* Model of pdns_zkns.py: a PowerDNS remote-backend HTTP server answering  *)
(* A / NS / SOA / SRV lookups from serversets registered in Zookeeper.     *)
(*                                                                         *)
(* Python strings are sequences of one-character strings, so that strip,   *)
(* lower, split, rpartition, join and int() are computed, not assumed.     *)
(* The alphabet is Latin-1 (U+0000 to U+00FF).  Under Python 2 a str is a  *)
(* byte string: a character above U+007F stands for bytes that are neither *)
(* whitespace, nor digits, nor letters with a case.                        *)
(* Python None is the empty tuple <<>>; an int n held in an optional field *)
(* is the one-element tuple <<n>>.                                         *)
(***************************************************************************)
EXTENDS Integers, Sequences, FiniteSets, TLC

VARIABLES
    \* ---- the interpreter, common to both specifications ----
    python3,        \* the script runs under Python 3 (TRUE) or Python 2 (FALSE)
    \* ---- construct_paths called as a pure function (PathSpec) ----
    hostname,       \* argument `hostname`
    basedomain,     \* argument `basedomain` (<<>> is None / '')
    paths,          \* list(construct_paths(hostname, basedomain))
    cp_done,        \* the call has been made
    \* ---- the server process (Spec) ----
    pc,             \* position of main(): "main", "zk_started", "built", "serving", "exited"
    zk,             \* registry client session: "new", "started", "failed", "closed"
    domain,         \* ZknsServer.domain
    soa_data,       \* ZknsServer.soa_data
    req,            \* the request being handled: [route, qname, qtype]
    handler,        \* the handler thread's frame: generators left to run, the
                    \* resolve_hostname call in progress, records yielded so
                    \* far, resolve_hostname calls completed
    response        \* what the handler returned or raised

vars == <<python3, hostname, basedomain, paths, cp_done,
          pc, zk, domain, soa_data, req, handler, response>>

pathVars == <<hostname, basedomain, paths, cp_done>>
serverVars == <<pc, zk, domain, soa_data, req, handler, response>>

----------------------------------------------------------------------------
(* Bounds of the model *)

\* longest label sequence of a hostname given to construct_paths in PathSpec
MaxLabels == 4
\* longest sequence of name labels in a qname sent to the server
MaxNames == 2
\* largest number of instances one read of a serverset returns
MaxInst == 2

----------------------------------------------------------------------------
(* Python values *)

None == <<>>

Max(S) == CHOOSE x \in S : \A y \in S : y <= x
Min(S) == CHOOSE x \in S : \A y \in S : x <= y

\* str.lstrip, str.rstrip, str.strip for a set of characters
RECURSIVE lstrip_chars(_, _)
lstrip_chars(s, chars) ==
    IF s # <<>> /\ Head(s) \in chars THEN lstrip_chars(Tail(s), chars) ELSE s

RECURSIVE rstrip_chars(_, _)
rstrip_chars(s, chars) ==
    IF s # <<>> /\ s[Len(s)] \in chars
    THEN rstrip_chars(SubSeq(s, 1, Len(s) - 1), chars) ELSE s

\* str.lstrip(c), str.rstrip(c), str.strip(c) for a one-character argument
lstrip(s, c) == lstrip_chars(s, {c})
rstrip(s, c) == rstrip_chars(s, {c})
strip(s, c) == rstrip(lstrip(s, c), c)

\* str.lower(): the ASCII letters, and under Python 3 the cased letters of
\* Latin-1 as well (U+00C0 to U+00DE but U+00D7, each 32 below its lower case)
UpperCase == <<"A","B","C","D","E","F","G","H","I","J","K","L","M",
               "N","O","P","Q","R","S","T","U","V","W","X","Y","Z">>
LowerCase == <<"a","b","c","d","e","f","g","h","i","j","k","l","m",
               "n","o","p","q","r","s","t","u","v","w","x","y","z">>

UpperLatin1 == <<"À","Á","Â","Ã","Ä","Å","Æ","Ç","È","É","Ê","Ë","Ì",
                 "Í","Î","Ï","Ð","Ñ","Ò","Ó","Ô","Õ","Ö","Ø","Ù","Ú",
                 "Û","Ü","Ý","Þ">>
LowerLatin1 == <<"à","á","â","ã","ä","å","æ","ç","è","é","ê","ë","ì",
                 "í","î","ï","ð","ñ","ò","ó","ô","õ","ö","ø","ù","ú",
                 "û","ü","ý","þ">>

lower_char(c) ==
    IF \E i \in 1..Len(UpperCase) : UpperCase[i] = c
    THEN LowerCase[CHOOSE i \in 1..Len(UpperCase) : UpperCase[i] = c]
    ELSE IF python3 /\ \E i \in 1..Len(UpperLatin1) : UpperLatin1[i] = c
    THEN LowerLatin1[CHOOSE i \in 1..Len(UpperLatin1) : UpperLatin1[i] = c]
    ELSE c

lower(s) == [i \in 1..Len(s) |-> lower_char(s[i])]

\* str.startswith / str.endswith
startswith(s, pre) == Len(pre) <= Len(s) /\ SubSeq(s, 1, Len(pre)) = pre
endswith(s, suf) ==
    Len(suf) <= Len(s) /\ SubSeq(s, Len(s) - Len(suf) + 1, Len(s)) = suf

\* str.rfind(sub), 1-based; 0 when sub does not occur
rfind(s, sub) ==
    LET hits == {i \in 1..(Len(s) + 1) :
                    /\ i + Len(sub) - 1 <= Len(s)
                    /\ SubSeq(s, i, i + Len(sub) - 1) = sub}
    IN  IF hits = {} THEN 0 ELSE Max(hits)

\* str.rpartition(sep): (head, sep, tail) around the LAST occurrence of sep;
\* ('', '', s) when sep does not occur
rpartition(s, sep) ==
    LET i == rfind(s, sep)
    IN  IF i = 0 THEN << <<>>, <<>>, s >>
        ELSE << SubSeq(s, 1, i - 1), sep, SubSeq(s, i + Len(sep), Len(s)) >>

\* str.split(c, maxsplit) for a one-character separator; maxsplit = -1: no limit
RECURSIVE split(_, _, _)
split(s, c, maxsplit) ==
    LET idx == {i \in 1..Len(s) : s[i] = c}
    IN  IF idx = {} \/ maxsplit = 0 THEN <<s>>
        ELSE LET i == Min(idx)
             IN  <<SubSeq(s, 1, i - 1)>>
                    \o split(SubSeq(s, i + 1, Len(s)), c, maxsplit - 1)

\* sep.join(parts) for parts that are all str
RECURSIVE join(_, _)
join(sep, parts) ==
    IF parts = <<>> THEN <<>>
    ELSE IF Len(parts) = 1 THEN parts[1]
    ELSE parts[1] \o sep \o join(sep, Tail(parts))

\* reversed(list)
reversed(l) == [i \in 1..Len(l) |-> l[Len(l) + 1 - i]]

\* int(str) in base 10.  Surrounding whitespace is dropped; what is left is
\* an optional sign and decimal digits.  Python 3 also takes single
\* underscores between digits ('1_0' is 10), which Python 2 rejects; Python 2
\* also drops whitespace between the sign and the digits ('- 1' is -1),
\* which Python 3 rejects.  Anything else is a ValueError.

\* the whitespace of a byte string: space, \t, \n, \r, \f and \v (U+000B)
AsciiWhitespace == {" ", "\t", "\n", "\r", "\f", ""}

\* the whitespace of Latin-1 text: the above, NEL (U+0085) and NBSP (U+00A0)
Latin1Whitespace == AsciiWhitespace \cup {"", " "}

\* the characters int() drops around the number
Whitespace == IF python3 THEN Latin1Whitespace ELSE AsciiWhitespace

Digits == <<"0","1","2","3","4","5","6","7","8","9">>

is_digit(c) == \E i \in 1..10 : Digits[i] = c
digit_val(c) == (CHOOSE i \in 1..10 : Digits[i] = c) - 1

RECURSIVE digits_val(_, _)
digits_val(s, acc) ==
    IF s = <<>> THEN acc ELSE digits_val(Tail(s), 10 * acc + digit_val(Head(s)))

\* the digits of a literal's body, <<>> when the body is not a valid one
int_digits(body, underscores) ==
    LET n == Len(body)
    IN  IF /\ n >= 1
           /\ is_digit(body[1])
           /\ is_digit(body[n])
           /\ \A i \in 1..n :
                \/ is_digit(body[i])
                \/ /\ underscores
                   /\ body[i] = "_"
                   /\ is_digit(body[i - 1])
                   /\ is_digit(body[i + 1])
        THEN SelectSeq(body, is_digit)
        ELSE <<>>

py_int(s) ==
    LET t      == rstrip_chars(lstrip_chars(s, Whitespace), Whitespace)
        signed == t # <<>> /\ Head(t) \in {"+", "-"}
        rest   == IF signed THEN Tail(t) ELSE t
        body   == IF python3 THEN rest ELSE lstrip_chars(rest, Whitespace)
        digits == int_digits(body, python3)
    IN  IF digits # <<>>
        THEN [exc |-> "",
              val |-> IF signed /\ Head(t) = "-"
                      THEN 0 - digits_val(digits, 0) ELSE digits_val(digits, 0)]
        ELSE [exc |-> "ValueError", val |-> 0]

----------------------------------------------------------------------------
(* construct_paths *)

\* variant: the two last elements joined in list order, not in pop order
extend_last_swapped(path_components) ==
    LET n == Len(path_components)
    IN  SubSeq(path_components, 1, n - 2)
            \o << path_components[n - 1] \o <<".">> \o path_components[n] >>

\* elem = '.'.join([path_components.pop(), path_components.pop()]);
\* path_components.append(elem)
extend_last(path_components) ==
    LET n == Len(path_components)
    IN  SubSeq(path_components, 1, n - 2)
            \o << path_components[n] \o <<".">> \o path_components[n - 1] >>

\* the while loop of the generator, collected into the list of what it yields
RECURSIVE yield_paths(_, _)
yield_paths(path_components, shard) ==
    IF path_components = <<>> THEN <<>>
    ELSE <<[path |-> join(<<"/">>, path_components), shard |-> shard]>>
            \o (IF Len(path_components) = 1 THEN <<>>
                ELSE yield_paths(extend_last(path_components), shard))

\* qrec: the part of the hostname before basedomain
qrec_of(host, base) ==
    IF base # <<>>
    THEN rpartition(strip(host, "."), base)[1]
    ELSE strip(host, ".")

construct_paths(host, base) ==
    LET qrec       == qrec_of(host, base)
        components == reversed(split(strip(qrec, "."), ".", -1))
        parsed     == py_int(components[Len(components)])
        shard      == IF parsed.exc = "" THEN <<parsed.val>> ELSE None
        rest       == IF parsed.exc = ""
                      THEN SubSeq(components, 1, Len(components) - 1)
                      ELSE components
    IN  yield_paths(rest, shard)

----------------------------------------------------------------------------
(* Inputs of PathSpec *)

\* plain labels, and labels int() reads as a number under one interpreter or
\* both: " 3" followed by \v, NBSP followed by "1_0", and "- 1"
PathLabels ==
    { <<"a">>, <<"b">>, <<"0">>, <<"1","2">>, <<"7","a">>,
      <<" ","3","">>, <<" ","1","_","0">>, <<"-"," ","1">> }

LabelSeqs(S, n) == UNION { [1..k -> S] : k \in 0..n }

Hostnames ==
    { lead \o join(<<".">>, ls) \o tail :
        lead \in { <<>>, <<".">> },
        ls   \in LabelSeqs(PathLabels, MaxLabels),
        tail \in { <<>>, <<".", "z", "k">>, <<".", "z", "k", ".">> } }

Basedomains == { None, <<"z", "k">>, <<"b">> }


----------------------------------------------------------------------------
(* Configuration: the flags and what main() builds from them *)

FLAGS_ttl == 60
FLAGS_soa_ttl == 300
FLAGS_soa_refresh == 1200
FLAGS_soa_retry == 180
FLAGS_soa_expire == 86400
FLAGS_soa_nxdomain_ttl == 60

\* --domain: the default
DefaultDomain ==
    <<"z","k",".","e","x","a","m","p","l","e",".","c","o","m">>

\* the command lines the server is started with: the defaults, the zone
\* written with its trailing dot, and the SOA name server and mailbox given
Flags ==
    { [domain |-> DefaultDomain, soa_nameserver |-> <<>>, soa_email |-> <<>>],
      [domain |-> DefaultDomain \o <<".">>,
       soa_nameserver |-> <<>>, soa_email |-> <<>>],
      [domain |-> DefaultDomain,
       soa_nameserver |-> <<"n","s","1",".","x">>,
       soa_email |-> <<"d","n","s",".","x">>] }

\* socket.getfqdn(): the name of the machine
getfqdn == <<"h","o","s","t",".","l","a","n">>

\* SOAData.__init__
SOAData(ttl, ns1, email, refresh, retry, expire, nxdomain_ttl) ==
    [ttl          |-> ttl,
     ns1          |-> ns1,
     email        |-> email,
     refresh      |-> refresh,
     retry        |-> retry,
     expire       |-> expire,
     nxdomain_ttl |-> nxdomain_ttl]

\* the SOAData main() builds: ns1 = FLAGS.soa_nameserver or socket.getfqdn(),
\* email = FLAGS.soa_email or 'root.%s' % FLAGS.domain (the flag as given)
main_soa_data(flags) ==
    SOAData(FLAGS_soa_ttl,
            IF flags.soa_nameserver # <<>> THEN flags.soa_nameserver ELSE getfqdn,
            IF flags.soa_email # <<>> THEN flags.soa_email
            ELSE <<"r","o","o","t",".">> \o flags.domain,
            FLAGS_soa_refresh, FLAGS_soa_retry, FLAGS_soa_expire,
            FLAGS_soa_nxdomain_ttl)

\* before main() has built it
NoSoaData == SOAData(0, <<>>, <<>>, 0, 0, 0, 0)

\* SOAData.__str__: '%(ns1)s %(email)s %(refresh)s 1 %(retry)s %(expire)s
\* %(nxdomain_ttl)s', kept as the tuple of its seven fields
soa_str(soa) ==
    <<soa.ns1, soa.email, soa.refresh, 1, soa.retry, soa.expire,
      soa.nxdomain_ttl>>

----------------------------------------------------------------------------
(* Zookeeper content.  The ensemble is written by the services that         *)
(* register in it, at any time, so a read returns whatever the path holds  *)
(* at that moment.                                                         *)

\* the serverset paths that can hold instances in the modelled ensemble
PathBA == <<"b", "/", "a">>
PathAB == <<"a", ".", "b">>
RegPaths == <<PathBA, PathAB>>

\* ServiceInstance.shard: None or a non-negative int
ShardValues == { None, <<0>>, <<1>> }

\* the i-th instance registered at RegPaths[p]
Instance(p, i, shard) ==
    [service_endpoint     |-> [host |-> <<10, 0, p, i>>, port |-> 8000 + i],
     additional_endpoints |-> [s \in { <<"h">> } |->
                                  [host |-> <<10, 0, p, i>>, port |-> 80 + i]],
     shard                |-> shard]

SSets(p, n) ==
    { [i \in 1..n |-> Instance(p, i, sh[i])] : sh \in [1..n -> ShardValues] }

\* what list(serverset.ServerSet(zkclient, zkpath)) can return; a path that
\* is not a serverset is empty
ServerSetList(zkpath) ==
    IF \E p \in 1..Len(RegPaths) : RegPaths[p] = zkpath
    THEN LET p == CHOOSE p \in 1..Len(RegPaths) : RegPaths[p] = zkpath
         IN  UNION { SSets(p, n) : n \in 0..MaxInst }
    ELSE { <<>> }

----------------------------------------------------------------------------
(* resolve_hostname.  The call in progress is a frame [active, hostname,    *)
(* zkpaths, reads]: the candidates still to try and what was read so far.  *)

NoFrame ==
    [active |-> FALSE, hostname |-> <<>>, zkpaths |-> <<>>, reads |-> <<>>]

\* zkpaths = construct_paths(hostname, self.domain) or []
resolve_enter(host, dom) ==
    [active |-> TRUE, hostname |-> host,
     zkpaths |-> construct_paths(host, dom), reads |-> <<>>]

\* variant: every instance of the shard, not the first one alone
shard_match_all(sset, shard) ==
    LET RECURSIVE keep(_)
        keep(l) == IF l = <<>> THEN <<>>
                   ELSE (IF Head(l).shard = shard THEN <<Head(l)>> ELSE <<>>)
                            \o keep(Tail(l))
    IN  keep(sset)

\* for ss_instance in sset: if ss_instance.shard == shard: return [ss_instance]
\* (<<>> when the loop ends without returning)
shard_match(sset, shard) ==
    LET hits == {i \in 1..Len(sset) : sset[i].shard = shard}
    IN  IF hits = {} THEN <<>> ELSE << sset[Min(hits)] >>

\* variant: an empty set ends the search
resolve_read_stop_at_empty(fr, sset) ==
    LET shard == Head(fr.zkpaths).shard
        read  == [zkpath |-> Head(fr.zkpaths).path, sset |-> sset]
        hit   == IF shard = None THEN sset ELSE shard_match(sset, shard)
    IN  [returned |-> TRUE, result |-> hit,
         frame |-> [fr EXCEPT !.zkpaths = Tail(@), !.reads = Append(@, read)]]

\* one turn of the for loop, for the list the read of the candidate's path
\* gave: return a result, or continue with the next candidate
resolve_read(fr, sset) ==
    LET shard == Head(fr.zkpaths).shard
        read  == [zkpath |-> Head(fr.zkpaths).path, sset |-> sset]
        next  == [fr EXCEPT !.zkpaths = Tail(@), !.reads = Append(@, read)]
    IN  IF sset = <<>>
        THEN [returned |-> FALSE, result |-> <<>>, frame |-> next]
        ELSE IF shard = None
        THEN [returned |-> TRUE, result |-> sset, frame |-> next]
        ELSE IF shard_match(sset, shard) # <<>>
        THEN [returned |-> TRUE, result |-> shard_match(sset, shard),
              frame |-> next]
        ELSE [returned |-> FALSE, result |-> <<>>, frame |-> next]

\* one entry of the log of completed resolve_hostname calls
ResolveCall(fr, result) ==
    [hostname |-> fr.hostname, reads |-> fr.reads, result |-> result]

----------------------------------------------------------------------------
(* Record synthesis *)

\* values handed to str.join
PyStr(s) == [t |-> "str", s |-> s, n |-> 0]
PyInt(n) == [t |-> "int", s |-> <<>>, n |-> n]

\* sep.join(items): TypeError unless every item is a str
py_join(sep, items) ==
    IF \E i \in 1..Len(items) : items[i].t # "str"
    THEN [exc |-> "TypeError", val |-> <<>>]
    ELSE [exc |-> "", val |-> join(sep, [i \in 1..Len(items) |-> items[i].s])]

ns_response(qname, target, ttl) ==
    [qtype |-> "NS", qname |-> qname, ttl |-> ttl, content |-> target]

\* the content is ' '.join([srv_name, ttl, 'IN SRV', priority, weight, port,
\* target]) with int ttl, priority, weight and port
srv_response(srv_name, target, port, ttl, priority, weight) ==
    LET content == py_join(<<" ">>,
                     << PyStr(srv_name), PyInt(ttl),
                        PyStr(<<"I","N"," ","S","R","V">>),
                        PyInt(priority), PyInt(weight), PyInt(port),
                        PyStr(target) >>)
    IN  [exc |-> content.exc,
         val |-> [qtype |-> "SOA", qname |-> srv_name, ttl |-> ttl,
                  content |-> content.val]]

soa_response(dom, ttl, content) ==
    [qtype |-> "SOA", qname |-> dom, ttl |-> ttl, content |-> content]

a_response(qname, ip_addr, ttl) ==
    [qtype |-> "A", qname |-> qname, ttl |-> ttl, content |-> ip_addr]

\* a_lookup after resolve_hostname returned: one A record per instance
a_lookup(qname, instances) ==
    [i \in 1..Len(instances) |->
        a_response(qname, instances[i].service_endpoint.host, FLAGS_ttl)]

ns_lookup(qname, dom, soa) ==
    IF strip(lower(qname), ".") = dom
    THEN << ns_response(qname, soa.ns1, FLAGS_ttl) >>
    ELSE <<>>

soa_lookup(qname, dom, soa) ==
    IF ~ endswith(strip(lower(qname), "."), dom)
    THEN <<>>
    ELSE << soa_response(dom, soa.ttl, soa_str(soa)) >>

\* additional_endpoints.get(service)
endpoint_get(endpoints, service) ==
    IF service \in DOMAIN endpoints THEN << endpoints[service] >> ELSE None

\* the for loop of srv_lookup over the resolved instances
RECURSIVE srv_instances(_, _, _, _, _)
srv_instances(instances, qname, a_name, service, items) ==
    IF instances = <<>> THEN [exc |-> "", items |-> items]
    ELSE LET instance == Head(instances)
         IN  IF instance.shard = None \/ instance.shard = <<0>>   \* not instance.shard
             THEN srv_instances(Tail(instances), qname, a_name, service, items)
             ELSE LET shard_a  == py_join(<<".">>,
                                    << PyInt(instance.shard[1]), PyStr(a_name) >>)
                      endpoint == endpoint_get(instance.additional_endpoints, service)
                      rec      == srv_response(qname, shard_a.val, endpoint[1].port,
                                               FLAGS_ttl, 0, 0)
                  IN  IF shard_a.exc # "" THEN [exc |-> shard_a.exc, items |-> items]
                      ELSE IF endpoint = None
                      THEN srv_instances(Tail(instances), qname, a_name, service, items)
                      ELSE IF rec.exc # "" THEN [exc |-> rec.exc, items |-> items]
                      ELSE srv_instances(Tail(instances), qname, a_name, service,
                                         Append(items, rec.val))

\* _service, _proto, a_name = qname.lower().split('.', 2)
srv_parts(qname) == split(lower(qname), ".", 2)

\* _service.startswith('_') and _proto in ['_tcp', '_udp']
srv_shape(parts) ==
    /\ startswith(parts[1], <<"_">>)
    /\ parts[2] \in { <<"_","t","c","p">>, <<"_","u","d","p">> }

----------------------------------------------------------------------------
(* The lookup handler.  Its frame is [gens, frame, items, calls, exc]: the  *)
(* generators of the chain not yet exhausted (the first one is running),   *)
(* the resolve_hostname call in progress, the records yielded so far, the  *)
(* resolve_hostname calls completed, and the exception that ended it.      *)

IdleHandler ==
    [gens |-> <<>>, frame |-> NoFrame, items |-> <<>>, calls |-> <<>>,
     exc |-> ""]

\* variant: the SOA lookup chained first
lookup_gens_soa_first(qtype) ==
    IF qtype = "ANY" THEN << "soa_lookup", "a_lookup", "ns_lookup", "srv_lookup" >>
    ELSE IF qtype = "A" THEN << "a_lookup" >>
    ELSE IF qtype = "NS" THEN << "ns_lookup" >>
    ELSE IF qtype = "SOA" THEN << "soa_lookup" >>
    ELSE IF qtype = "SRV" THEN << "srv_lookup" >>
    ELSE <<>>

\* the generators dnsapi_lookup hands to dnsresponse, in the order of
\* itertools.chain; none for a qtype it does not know
lookup_gens(qtype) ==
    IF qtype = "ANY" THEN << "a_lookup", "ns_lookup", "soa_lookup", "srv_lookup" >>
    ELSE IF qtype = "A" THEN << "a_lookup" >>
    ELSE IF qtype = "NS" THEN << "ns_lookup" >>
    ELSE IF qtype = "SOA" THEN << "soa_lookup" >>
    ELSE IF qtype = "SRV" THEN << "srv_lookup" >>
    ELSE <<>>

\* list() starts the first generator left: it runs to its end, to an
\* exception, or into resolve_hostname
gen_enter(h, qname, dom, soa) ==
    LET g == Head(h.gens)
    IN  IF g = "a_lookup"
        THEN [h EXCEPT !.frame = resolve_enter(qname, dom)]
        ELSE IF g = "ns_lookup"
        THEN [h EXCEPT !.gens = Tail(@),
                       !.items = @ \o ns_lookup(qname, dom, soa)]
        ELSE IF g = "soa_lookup"
        THEN [h EXCEPT !.gens = Tail(@),
                       !.items = @ \o soa_lookup(qname, dom, soa)]
        ELSE LET parts == srv_parts(qname)
             IN  IF Len(parts) # 3
                 THEN [h EXCEPT !.exc = "ValueError"]     \* tuple unpacking
                 ELSE IF ~ srv_shape(parts)
                 THEN [h EXCEPT !.gens = Tail(@)]
                 ELSE [h EXCEPT !.frame = resolve_enter(parts[3], dom)]

\* resolve_hostname returned `result` to the running generator, which runs
\* to its end or to an exception
gen_resume(h, qname, result) ==
    LET g     == Head(h.gens)
        calls == Append(h.calls, ResolveCall(h.frame, result))
    IN  IF g = "a_lookup"
        THEN [h EXCEPT !.gens = Tail(@), !.frame = NoFrame, !.calls = calls,
                       !.items = @ \o a_lookup(qname, result)]
        ELSE LET parts == srv_parts(qname)
                 out   == srv_instances(result, qname, parts[3],
                                        Tail(parts[1]), <<>>)
             IN  [h EXCEPT !.gens = IF out.exc = "" THEN Tail(@) ELSE @,
                           !.frame = NoFrame, !.calls = calls,
                           !.items = @ \o out.items,
                           !.exc = out.exc]

\* list(data) has consumed every generator, or one of them raised
Finished(h) == h.exc # "" \/ h.gens = <<>>

\* the handler thread runs until it waits for Zookeeper or is finished
RECURSIVE run(_, _, _, _)
run(h, qname, dom, soa) ==
    IF Finished(h) THEN h
    ELSE IF h.frame.active
    THEN IF h.frame.zkpaths = <<>>
         THEN run(gen_resume(h, qname, <<>>), qname, dom, soa)   \* return []
         ELSE h                                     \* list(ServerSet(...))
    ELSE run(gen_enter(h, qname, dom, soa), qname, dom, soa)

\* what a handler hands back to the HTTP server
Returned(result) == [status |-> "ok", exc |-> "", result |-> result]

Raised(exc) ==
    [status |-> "error", exc |-> exc,
     result |-> [kind |-> "none", items |-> <<>>]]

\* the values dnsresponse is called with
Generator(exc, items) == [type |-> "generator", exc |-> exc, items |-> items]
PyList(items) == [type |-> "list", exc |-> "", items |-> items]
PyFalse == [type |-> "bool", exc |-> "", items |-> <<>>]

\* resp = {'result': list(data or [])}
dnsresponse(data) ==
    LET truthy == \/ data.type = "generator"
                  \/ data.type = "list" /\ data.items # <<>>
        listed == IF truthy THEN data ELSE PyList(<<>>)
    IN  IF listed.exc # "" THEN Raised(listed.exc)
        ELSE Returned([kind |-> "array", items |-> listed.items])

\* the handler's return for a finished frame: dnsresponse over the chain, or
\* dnsresponse(False) for a qtype it does not know
dnsapi_lookup(h, qtype) ==
    IF qtype \in {"ANY", "A", "NS", "SOA", "SRV"}
    THEN dnsresponse(Generator(h.exc, h.items))
    ELSE dnsresponse(PyFalse)

dnsapi_getdomainmetadata(qname, qkind) ==
    IF qkind = "SOA-EDIT" THEN dnsresponse(PyList(<< "EPOCH" >>))
    ELSE dnsresponse(PyFalse)

----------------------------------------------------------------------------
(* Requests sent to the server *)

SrvPrefixes ==
    { <<>>,
      << <<"_","h">>, <<"_","t","c","p">> >>,
      << <<"_","g">>, <<"_","u","d","p">> >>,
      << <<"h">>,     <<"_","t","c","p">> >>,
      << <<"_","h">>, <<"_","x","x">> >> }

ShardLabels == { <<>>, << <<"0">> >> }

NameLabels == { <<"a">>, <<"b">> }

ZoneSuffixes ==
    { <<>>,
      DefaultDomain,
      DefaultDomain \o <<".">>,
      <<"Z","K",".","E","X","A","M","P","L","E",".","C","O","M">> }

\* an optional SRV prefix, an optional shard label, name labels and the zone,
\* joined by dots
Qnames ==
    { q \in { join(<<".">>, pre \o sh \o ns \o (IF zone = <<>> THEN <<>> ELSE <<zone>>)) :
               pre  \in SrvPrefixes,
               sh   \in ShardLabels,
               ns   \in LabelSeqs(NameLabels, MaxNames),
               zone \in ZoneSuffixes } : strip(q, ".") # <<>> }

Qtypes == { "ANY", "A", "NS", "SOA", "SRV", "TXT" }

Qkinds == { "SOA-EDIT", "PRESIGNED" }

NoRequest == [route |-> "none", qname |-> <<>>, qtype |-> ""]

NoResponse ==
    [status |-> "none", exc |-> "", result |-> [kind |-> "none", items |-> <<>>]]

\* the response once the frame is finished, none while it waits
HandlerResponse(h, qtype) ==
    IF Finished(h) THEN dnsapi_lookup(h, qtype) ELSE NoResponse

----------------------------------------------------------------------------
(* The server process.  Handler threads share no data that any of them      *)
(* writes (domain, soa_data and ttl are set before the thread starts), so  *)
(* one request in flight is followed; the main thread and the writers of   *)
(* the ensemble run between any two of its steps.                          *)

Init ==
    /\ python3 \in BOOLEAN
    /\ pc = "main"
    /\ zk = "new"
    /\ domain = <<>>
    /\ soa_data = NoSoaData
    /\ req = NoRequest
    /\ handler = IdleHandler
    /\ response = NoResponse
    /\ hostname = <<>>
    /\ basedomain = None
    /\ paths = <<>>
    /\ cp_done = FALSE

\* zkconn = TwitterKazooClient(FLAGS.zk); zkconn.start()
ZkStart ==
    /\ pc = "main"
    /\ \/ zk' = "started" /\ pc' = "zk_started"
       \/ zk' = "failed" /\ pc' = "exited"       \* start() raised
    /\ UNCHANGED <<python3, domain, soa_data, req, handler, response>>
    /\ UNCHANGED pathVars

\* soa_data = SOAData(...); server = ZknsServer(zk_handle=zkconn, domain=...)
BuildServer ==
    /\ pc = "zk_started"
    /\ \E flags \in Flags :
         /\ soa_data' = main_soa_data(flags)
         /\ domain' = strip(flags.domain, ".")
    /\ pc' = "built"
    /\ UNCHANGED <<python3, zk, req, handler, response>>
    /\ UNCHANGED pathVars

\* thread = ExceptionalThread(...); thread.daemon = True; thread.start()
StartThread ==
    /\ pc = "built"
    /\ pc' = "serving"
    /\ UNCHANGED <<python3, zk, domain, soa_data, req, handler, response>>
    /\ UNCHANGED pathVars

\* an exception between zkconn.start() and wait_forever() leaves main()
StartupFailure ==
    /\ pc \in {"zk_started", "built"}
    /\ pc' = "exited"
    /\ UNCHANGED <<python3, zk, domain, soa_data, req, handler, response>>
    /\ UNCHANGED pathVars

\* GET /dnsapi/lookup/<qname>/<qtype>: the handler starts and runs up to its
\* first read of Zookeeper, or to its end when it reads nothing
Lookup ==
    /\ pc = "serving"
    /\ req.route = "none"
    /\ \E qname \in Qnames, qtype \in Qtypes :
         LET h == run([IdleHandler EXCEPT !.gens = lookup_gens(qtype)],
                      qname, domain, soa_data)
         IN  /\ req' = [route |-> "lookup", qname |-> qname, qtype |-> qtype]
             /\ handler' = h
             /\ response' = HandlerResponse(h, qtype)
    /\ UNCHANGED <<python3, pc, zk, domain, soa_data>>
    /\ UNCHANGED pathVars

\* sset = list(serverset.ServerSet(self.zkclient, zkpath)): the read of the
\* next candidate's path comes back, and the handler runs up to its next
\* read or to its end
ReadServerSet ==
    /\ pc = "serving"
    /\ req.route = "lookup"
    /\ handler.frame.active
    /\ handler.frame.zkpaths # <<>>
    /\ \E sset \in ServerSetList(Head(handler.frame.zkpaths).path) :
         LET r  == resolve_read(handler.frame, sset)
             h1 == [handler EXCEPT !.frame = r.frame]
             h2 == IF r.returned THEN gen_resume(h1, req.qname, r.result) ELSE h1
             h  == run(h2, req.qname, domain, soa_data)
         IN  /\ handler' = h
             /\ response' = HandlerResponse(h, req.qtype)
    /\ UNCHANGED <<python3, pc, zk, domain, soa_data, req>>
    /\ UNCHANGED pathVars

\* GET /dnsapi/getDomainMetadata/<qname>/<qkind>
GetDomainMetadata ==
    /\ pc = "serving"
    /\ req.route = "none"
    /\ \E qname \in { DefaultDomain, DefaultDomain \o <<".">> }, qkind \in Qkinds :
         /\ req' = [route |-> "getDomainMetadata", qname |-> qname,
                    qtype |-> qkind]
         /\ response' = dnsapi_getdomainmetadata(qname, qkind)
    /\ UNCHANGED <<python3, pc, zk, domain, soa_data, handler>>
    /\ UNCHANGED pathVars

\* the HTTP server has sent the reply; the request's data is dropped
Reply ==
    /\ pc = "serving"
    /\ response.status # "none"
    /\ req' = NoRequest
    /\ handler' = IdleHandler
    /\ response' = NoResponse
    /\ UNCHANGED <<python3, pc, zk, domain, soa_data>>
    /\ UNCHANGED pathVars

\* except KeyboardInterrupt: log.fatal(...); main() returns and the process
\* ends, and with it the daemon thread, whatever it was doing
KeyboardInterrupt ==
    /\ pc = "serving"
    /\ pc' = "exited"
    /\ req' = NoRequest
    /\ handler' = IdleHandler
    /\ response' = NoResponse
    /\ UNCHANGED <<python3, zk, domain, soa_data>>
    /\ UNCHANGED pathVars

Next ==
    \/ ZkStart
    \/ BuildServer
    \/ StartThread
    \/ StartupFailure
    \/ Lookup
    \/ ReadServerSet
    \/ GetDomainMetadata
    \/ Reply
    \/ KeyboardInterrupt

Spec == Init /\ [][Next]_vars

----------------------------------------------------------------------------
(* construct_paths on its own *)

PathInit ==
    /\ python3 \in BOOLEAN
    /\ hostname \in Hostnames
    /\ basedomain \in Basedomains
    /\ paths = <<>>
    /\ cp_done = FALSE
    /\ pc = "main"
    /\ zk = "new"
    /\ domain = <<>>
    /\ soa_data = NoSoaData
    /\ req = NoRequest
    /\ handler = IdleHandler
    /\ response = NoResponse

\* list(construct_paths(hostname, basedomain))
CallConstructPaths ==
    /\ ~ cp_done
    /\ paths' = construct_paths(hostname, basedomain)
    /\ cp_done' = TRUE
    /\ UNCHANGED <<python3, hostname, basedomain>>
    /\ UNCHANGED serverVars

PathNext == CallConstructPaths

PathSpec == PathInit /\ [][PathNext]_vars

----------------------------------------------------------------------------
(* Properties of construct_paths (PathSpec) *)

\* a label made of decimal digits only
IsNatLabel(l) == l # <<>> /\ \A i \in 1..Len(l) : is_digit(l[i])

\* a non-empty label that no interpreter reads as an integer: it holds a
\* character that is not a digit, a sign, an underscore or whitespace
NonIntLabel(l) ==
    \E i \in 1..Len(l) :
        /\ ~ is_digit(l[i])
        /\ l[i] \notin {"+", "-", "_"} \cup Latin1Whitespace

\* the dot-stripped hostname is q.basedomain for a non-empty q
C4_Form ==
    /\ basedomain # <<>>
    /\ Len(strip(hostname, ".")) > Len(basedomain) + 1
    /\ endswith(strip(hostname, "."), <<".">> \o basedomain)

C4_labels ==
    LET st == strip(hostname, ".")
    IN  split(SubSeq(st, 1, Len(st) - Len(basedomain) - 1), ".", -1)

C4_hasShard == IsNatLabel(C4_labels[1])

\* l1 .. lk
C4_names == IF C4_hasShard THEN Tail(C4_labels) ELSE C4_labels

C4_shard == IF C4_hasShard THEN << digits_val(C4_labels[1], 0) >> ELSE None

C4_Pre ==
    /\ cp_done
    /\ C4_Form
    /\ C4_names # <<>>
    /\ \A i \in 1..Len(C4_names) : NonIntLabel(C4_names[i])

\* the i-th candidate path, i = 1..k: lk / ... / l(i+1) / l1.l2.....li
C4_path(i) ==
    LET k == Len(C4_names)
    IN  join(<<"/">>,
             [j \in 1..(k - i) |-> C4_names[k + 1 - j]]
                \o << join(<<".">>, SubSeq(C4_names, 1, i)) >>)

\* C4: for a hostname [s.]l1.l2.....lk.basedomain with non-integer labels li,
\* construct_paths emits exactly k candidates, the i-th being the labels
\* lk .. l(i+1) joined by '/' and then l1.....li, all with shard s (None
\* when there is no integer label).
C4_PathsOfQualifiedName ==
    C4_Pre =>
        paths = [i \in 1..Len(C4_names) |->
                    [path |-> C4_path(i), shard |-> C4_shard]]

C4_Witness ==
    /\ C4_Pre
    /\ C4_hasShard
    /\ Len(C4_names) >= 3
    /\ Len(paths) = Len(C4_names)

\* C10: when basedomain is non-empty and is not a suffix of the dot-stripped
\* hostname, construct_paths emits the candidates of construct_paths(hostname)
\* called without a basedomain.
C10_ForeignNameKeepsHostname ==
    ( /\ cp_done
      /\ basedomain # <<>>
      /\ ~ endswith(strip(hostname, "."), basedomain) )
    => paths = construct_paths(hostname, None)

----------------------------------------------------------------------------
(* Properties of the server (Spec) *)

IsLookup == req.route = "lookup"

\* the handler has returned or raised
Answered == response.status # "none"

\* the qname has the form _service._proto.name with proto _tcp or _udp
WellFormedSrvName(qname) ==
    LET parts == split(lower(qname), ".", 2)
    IN  /\ Len(parts) = 3
        /\ parts[1] # <<>> /\ parts[1][1] = "_"
        /\ parts[2] \in { <<"_","t","c","p">>, <<"_","u","d","p">> }

\* C1: every envelope returned by lookup or getDomainMetadata has a result
\* that is false or an array of at least one record, never the empty array.
C1_ResultFalseOrNonEmpty ==
    response.status = "ok" =>
        \/ response.result.kind = "false"
        \/ response.result.kind = "array" /\ Len(response.result.items) >= 1

\* the instances of a set read from the registry whose shard is `shard`
Matching(sset, shard) ==
    LET RECURSIVE keep(_)
        keep(l) == IF l = <<>> THEN <<>>
                   ELSE (IF Head(l).shard = shard THEN <<Head(l)>> ELSE <<>>)
                            \o keep(Tail(l))
    IN  keep(sset)

\* the i-th read of a completed call was made for a candidate that carries a
\* shard, and the set it gave holds an instance of that shard
ShardHit(call, cands, i) ==
    /\ cands[i].shard # None
    /\ Matching(call.reads[i].sset, cands[i].shard) # <<>>

\* C2 as stated: when a candidate carries a shard and the set read at its
\* path holds m >= 1 instances of that shard, resolve_hostname returns all m
\* of them and no other instance.
C2_AllMatchingReturned ==
    \A n \in 1..Len(handler.calls) :
        LET call  == handler.calls[n]
            cands == construct_paths(call.hostname, domain)
        IN  \A i \in 1..Len(call.reads) :
                ShardHit(call, cands, i) =>
                    call.result = Matching(call.reads[i].sset, cands[i].shard)

\* C2 amended: when a candidate carries a shard and the set read at its path
\* holds m >= 1 instances of that shard, resolve_hostname returns a
\* one-element list: the first instance of that set, in the set's order,
\* whose shard equals it.
C2_FirstMatchingReturned ==
    \A n \in 1..Len(handler.calls) :
        LET call  == handler.calls[n]
            cands == construct_paths(call.hostname, domain)
        IN  \A i \in 1..Len(call.reads) :
                ShardHit(call, cands, i) =>
                    call.result =
                        << Matching(call.reads[i].sset, cands[i].shard)[1] >>

C2_Witness ==
    \E n \in 1..Len(handler.calls) :
        LET call  == handler.calls[n]
            cands == construct_paths(call.hostname, domain)
        IN  \E i \in 1..Len(call.reads) :
                /\ ShardHit(call, cands, i)
                /\ Len(Matching(call.reads[i].sset, cands[i].shard)) >= 2
                /\ Len(call.result) = 1

\* the set a read gave can answer a candidate: it is non-empty and, for a
\* sharded query, holds an instance of the shard
Qualifies(read, shard) ==
    /\ read.sset # <<>>
    /\ \/ shard = None
       \/ \E k \in 1..Len(read.sset) : read.sset[k].shard = shard

\* C3: resolve_hostname reads the registry in the order construct_paths emits
\* the candidates and answers from the first read that qualifies: every
\* candidate read before the last one read did not qualify, none is read
\* after the winner, an unsharded query gets the whole first non-empty set,
\* and the result is empty exactly when every candidate was read and none
\* qualified.  While a call is in progress its reads so far follow the
\* candidates' order and none of them qualified.
C3_FirstQualifyingCandidateWins ==
    /\ \A n \in 1..Len(handler.calls) :
        LET call   == handler.calls[n]
            cands  == construct_paths(call.hostname, domain)
            reads  == call.reads
            result == call.result
            last   == Len(reads)
        IN  /\ last <= Len(cands)
            /\ \A i \in 1..last : reads[i].zkpath = cands[i].path
            /\ \A i \in 1..(last - 1) : ~ Qualifies(reads[i], cands[i].shard)
            /\ result # <<>> =>
                    /\ last >= 1
                    /\ Qualifies(reads[last], cands[last].shard)
                    /\ cands[last].shard = None => result = reads[last].sset
                    /\ cands[last].shard # None =>
                            \A k \in 1..Len(result) :
                                /\ result[k].shard = cands[last].shard
                                /\ \E j \in 1..Len(reads[last].sset) :
                                        reads[last].sset[j] = result[k]
            /\ result = <<>> <=>
                    /\ last = Len(cands)
                    /\ \A i \in 1..last : ~ Qualifies(reads[i], cands[i].shard)
    /\ handler.frame.active =>
        LET cands == construct_paths(handler.frame.hostname, domain)
            reads == handler.frame.reads
        IN  /\ Len(reads) <= Len(cands)
            /\ handler.frame.zkpaths = SubSeq(cands, Len(reads) + 1, Len(cands))
            /\ \A i \in 1..Len(reads) :
                    /\ reads[i].zkpath = cands[i].path
                    /\ ~ Qualifies(reads[i], cands[i].shard)

C3_Witness ==
    \E n \in 1..Len(handler.calls) :
        LET call  == handler.calls[n]
            cands == construct_paths(call.hostname, domain)
        IN  /\ Len(cands) >= 2
            /\ Len(call.reads) = 2
            /\ call.reads[1].sset # <<>>
            /\ ~ Qualifies(call.reads[1], cands[1].shard)
            /\ call.result # <<>>

\* the instances an SRV answer is owed for: a shard is present and the
\* service has an additional endpoint
SrvOwed(instances, service) ==
    LET RECURSIVE keep(_)
        keep(l) == IF l = <<>> THEN <<>>
                   ELSE (IF /\ Head(l).shard # None
                            /\ service \in DOMAIN Head(l).additional_endpoints
                         THEN <<Head(l)>> ELSE <<>>) \o keep(Tail(l))
    IN  keep(instances)

\* C5: for a well-formed SRV qname _service._proto.a_name, srv_lookup emits
\* exactly one record for each instance resolved for a_name that has a shard
\* (any non-negative integer) and an additional endpoint for the service, and
\* none for any other instance.
C5_SrvRecordPerShardedEndpoint ==
    ( IsLookup /\ Answered /\ req.qtype = "SRV"
               /\ WellFormedSrvName(req.qname) ) =>
        LET parts == split(lower(req.qname), ".", 2)
            owed  == SrvOwed(handler.calls[1].result, Tail(parts[1]))
        IN  /\ response.status = "ok"
            /\ Len(response.result.items) = Len(owed)

\* C6: an SRV lookup of a qname that is not _service._proto.name, and the SRV
\* part of an ANY lookup of it, completes without raising and contributes no
\* record.
C6_MalformedSrvNeverRaises ==
    ( IsLookup /\ Answered /\ req.qtype \in {"SRV", "ANY"}
               /\ ~ WellFormedSrvName(req.qname) ) =>
        /\ response.status = "ok"
        /\ req.qtype = "SRV" => response.result.items = <<>>

\* the place of a record type in an ANY answer
Rank(qtype) == IF qtype = "A" THEN 1 ELSE IF qtype = "NS" THEN 2 ELSE 3

\* the records the SRV lookup owes an ANY answer: those made from what its
\* own resolve_hostname call returned, none for a qname of another shape
C7_srv(qname) ==
    IF WellFormedSrvName(qname)
    THEN LET parts == split(lower(qname), ".", 2)
         IN  srv_instances(handler.calls[2].result, qname, parts[3],
                           Tail(parts[1]), <<>>).items
    ELSE <<>>

\* C7: the records of an ANY response are the A-lookup, NS-lookup, SOA-lookup
\* and SRV-lookup outputs for the qname, concatenated in that order.
C7_AnyIsConcatenationInOrder ==
    ( IsLookup /\ req.qtype = "ANY" /\ response.status = "ok" ) =>
        LET items    == response.result.items
            expected == a_lookup(req.qname, handler.calls[1].result)
                            \o ns_lookup(req.qname, domain, soa_data)
                            \o soa_lookup(req.qname, domain, soa_data)
                            \o C7_srv(req.qname)
        IN  /\ Len(items) = Len(expected)
            /\ \A i \in 1..Len(items) :
                    /\ items[i].qtype = expected[i].qtype
                    /\ items[i] = expected[i]
            /\ \A i, j \in 1..Len(items) :
                    i < j => Rank(items[i].qtype) <= Rank(items[j].qtype)

C7_Witness ==
    /\ IsLookup /\ req.qtype = "ANY" /\ response.status = "ok"
    /\ Len(response.result.items) >= 3
    /\ response.result.items[1].qtype = "A"
    /\ response.result.items[Len(response.result.items)].qtype = "SOA"

\* C8: whenever the process has ended after the registry client's session
\* was started, the client's close has been invoked.
C8_CloseBeforeExit ==
    ( pc = "exited" /\ zk \notin {"new", "failed"} ) => zk = "closed"

\* C9: when the dot-stripped hostname equals basedomain, construct_paths emits
\* no candidate, so resolve_hostname reads nothing from the registry and
\* returns the empty list.
C9_ApexMakesNoQuery ==
    /\ \A n \in 1..Len(handler.calls) :
        ( domain # <<>> /\ strip(handler.calls[n].hostname, ".") = domain ) =>
            /\ construct_paths(handler.calls[n].hostname, domain) = <<>>
            /\ handler.calls[n].reads = <<>>
            /\ handler.calls[n].result = <<>>
    /\ ( /\ handler.frame.active
         /\ domain # <<>>
         /\ strip(handler.frame.hostname, ".") = domain ) =>
            handler.frame.zkpaths = <<>>

====
